---- MODULE Spec2Model ----
(***************************************************************************)
(* callbench: a microbenchmark of clock_gettime (raw syscall against the   *)
(* libc/vDSO path) and of reading /dev/zero (mmap against read).           *)
(*                                                                         *)
(* The model follows src/callbench.c statement by statement.  One action   *)
(* is one piece of straight-line code between two loop tests; a measured   *)
(* operation (one call through inner_call) is one action.                  *)
(*                                                                         *)
(* Integer widths.  The program is built for an LP64 target: int and       *)
(* unsigned int have 32 bits, long and unsigned long 64.  TLC's integers   *)
(* have 32 bits, so both widths are scaled down and the relation between   *)
(* them (unsigned long strictly wider than unsigned int) is kept:          *)
(*   int / unsigned int   IntBits bits,                                    *)
(*   long / unsigned long 31 bits, the widest TLC can hold, which is also  *)
(*                        wide enough for NS_PER_SEC.                      *)
(* Every conversion between them is written out (IntToULong, LongToULong,  *)
(* ULongToLong, UIntInc).                                                  *)
(***************************************************************************)
EXTENDS Integers, Sequences, FiniteSets, TLC

\* ------------------------------------------------------------- bounds
\* Width of int and unsigned int.
IntBits == 11
\* The monotonic clock is read at Epoch, Epoch + 1, ..., Epoch + MaxTicks ns.
MaxTicks == 3
\* The invocation counters (observers, not program state) stop counting here.
MaxCount == 4001

\* ---------------------------------------------------- program constants
NS_PER_SEC == 1000000000
TEST_READ_LEN == 65536
TEST_READ_PATH == "/dev/zero"
\* bench_time's defaults
TimeDefaultCalls == 100000
TimeDefaultIters == 32
TimeDefaultReps == 5
\* bench_file's defaults
FileDefaultCalls == 100
FileDefaultIters == 128
FileDefaultReps == 5

\* ------------------------------------------------------ integer types
INT_MAX == 2^(IntBits - 1) - 1
INT_MIN == -INT_MAX - 1
UINT_MAX == INT_MAX + INT_MAX + 1
LONG_MAX == 2^30 - 1
ULONG_MAX == LONG_MAX + LONG_MAX + 1

\* int -> unsigned long (the assignment value = atoi(...) in get_arg):
\* reduction modulo ULONG_MAX + 1, written without forming ULONG_MAX + 1.
IntToULong(v) == IF v >= 0 THEN v ELSE (ULONG_MAX + v) + 1
\* long -> unsigned long (the usual arithmetic conversions of long op ulong).
LongToULong(v) == IF v >= 0 THEN v ELSE (ULONG_MAX + v) + 1
\* unsigned long -> long (the assignment back to a long).
ULongToLong(u) == IF u <= LONG_MAX THEN u ELSE (u - ULONG_MAX) - 1
\* unsigned int ++
UIntInc(c) == IF c = UINT_MAX THEN 0 ELSE c + 1

\* ------------------------------------------------------------ strings
\* A C string is the sequence of its characters; NUL is what indexing one
\* past the last character reads.
NUL == "\\0"
CharAt(s, k) == IF k <= Len(s) THEN s[k] ELSE NUL

UpperCase == <<"A","B","C","D","E","F","G","H","I","J","K","L","M",
               "N","O","P","Q","R","S","T","U","V","W","X","Y","Z">>
LowerCase == <<"a","b","c","d","e","f","g","h","i","j","k","l","m",
               "n","o","p","q","r","s","t","u","v","w","x","y","z">>
\* tolower of <ctype.h> in the C locale
tolower(c) ==
    IF \E k \in 1..26 : UpperCase[k] = c
    THEN LowerCase[CHOOSE k \in 1..26 : UpperCase[k] = c]
    ELSE c

Digits == <<"0","1","2","3","4","5","6","7","8","9">>
isdigit(c) == \E k \in 1..10 : Digits[k] = c
DigitVal(c) == (CHOOSE k \in 1..10 : Digits[k] = c) - 1
isspace(c) == c \in {" ", "\t", "\n"}

RECURSIVE SkipSpace(_, _)
SkipSpace(s, k) == IF isspace(CharAt(s, k)) THEN SkipSpace(s, k + 1) ELSE k

RECURSIVE Accumulate(_, _, _)
Accumulate(s, k, acc) ==
    IF isdigit(CharAt(s, k))
    THEN Accumulate(s, k + 1, acc * 10 + DigitVal(CharAt(s, k)))
    ELSE acc

\* The number strtol(s, NULL, 10) reads: leading white space, an optional
\* sign, then decimal digits up to the first character that is none.
ParsedNumber(s) ==
    LET k == SkipSpace(s, 1)
        c == CharAt(s, k)
        j == IF c = "-" \/ c = "+" THEN k + 1 ELSE k
        m == Accumulate(s, j, 0)
    IN  IF c = "-" THEN -m ELSE m

\* atoi(s): the set of values the call may return.  A number that int cannot
\* represent is undefined behaviour: any int may come back.
atoi(s) ==
    LET v == ParsedNumber(s)
    IN  IF INT_MIN <= v /\ v <= INT_MAX THEN {v} ELSE INT_MIN..INT_MAX

\* argv is the whole vector, argv[0] (the program name) first; TLA+
\* sequences start at 1.
Argc(av) == Len(av)
Arg(av, index) == av[index + 1]

\* get_arg without lines 133-134
get_arg_keeps_zero(argc, av, index, default_value) ==
    IF argc > index
    THEN {IntToULong(v) : v \in atoi(Arg(av, index))}
    ELSE {0}

\* get_arg: the set of values it may return (a set because of atoi).
get_arg(argc, av, index, default_value) ==
    LET parsed == IF argc > index
                  THEN {IntToULong(v) : v \in atoi(Arg(av, index))}
                  ELSE {0}
    IN  {IF value = 0 THEN default_value ELSE value : value \in parsed}


\* The scaled widths stand for the LP64 ones exactly on the values an int
\* converts to: 0..UINT_MAX and the images of the negative ints.  A run
\* whose parameter lies in between (where unsigned int would hold it on
\* LP64 but not here) is not followed.
ScaleFaithful(v) == v <= UINT_MAX \/ v >= IntToULong(INT_MIN)

\* -------------------------------------------------------------- clock
\* First reading of the monotonic clock, two nanoseconds short of a full
\* second so that readings straddle a tv_sec step.
Epoch == NS_PER_SEC - 2
\* struct timespec of the clock at tick t
Timespec(t) ==
    [tv_sec |-> (Epoch + t) \div NS_PER_SEC, tv_nsec |-> (Epoch + t) % NS_PER_SEC]

true_ns(ts) == ts.tv_nsec + (ts.tv_sec * NS_PER_SEC)

\* ---------------------------------------------------------- resources
\* What the process holds: open descriptors, live mappings, heap blocks.
\* Addresses and descriptors are small integers.
NULL == 0
MAP_FAILED == -1
BAD_FD == -1
StdFds == {0, 1, 2}

LowestFree(used, from) == CHOOSE n \in from..(from + Cardinality(used)) :
                              /\ n \notin used
                              /\ \A m \in from..(n - 1) : m \in used

\* open(path, O_RDONLY): the lowest free descriptor, or -1.
\* ok is the environment's answer.
open(r, path, ok) ==
    IF ok
    THEN LET fd == LowestFree(r.fds, 0)
         IN  [r |-> [r EXCEPT !.fds = @ \cup {fd}], val |-> fd]
    ELSE [r |-> r, val |-> BAD_FD]

\* mmap(NULL, len, PROT_READ, MAP_PRIVATE, fd, 0): needs an open descriptor.
mmap(r, len, fd, ok) ==
    IF ok /\ fd \in r.fds
    THEN LET a == LowestFree(r.maps \cup r.bufs, 1)
         IN  [r |-> [r EXCEPT !.maps = @ \cup {a}], val |-> a]
    ELSE [r |-> r, val |-> MAP_FAILED]

malloc(r, len, ok) ==
    IF ok
    THEN LET a == LowestFree(r.maps \cup r.bufs, 1)
         IN  [r |-> [r EXCEPT !.bufs = @ \cup {a}], val |-> a]
    ELSE [r |-> r, val |-> NULL]

\* munmap of an address that is no mapping fails with EINVAL and does nothing.
munmap(r, addr, len) == [r EXCEPT !.maps = @ \ {addr}]
\* close of a descriptor that is not open fails with EBADF and does nothing.
close(r, fd) == [r EXCEPT !.fds = @ \ {fd}]
\* free(NULL) does nothing.
free(r, addr) == [r EXCEPT !.bufs = @ \ {addr}]

\* memcpy(dst, src, len) is defined only between a live block and a live
\* mapping.  Otherwise the behaviour is undefined: the copy faults
\* (SIGSEGV), or, the buffer being freed unread, the optimiser has removed
\* the copy and nothing happens.  ub is which of the two the build does.
memcpy_defined(r, dst, src) == dst \in r.bufs /\ src \in r.maps

\* What the environment decides during one measured operation.
Envs == [open : BOOLEAN, mmap : BOOLEAN, malloc : BOOLEAN, ub : {"fault", "elided"}]
AllGood == [open |-> TRUE, mmap |-> TRUE, malloc |-> TRUE, ub |-> "fault"]

\* ------------------------------------------------- measured operations
\* Each yields: r, the resources after it; fault, whether the process died
\* in it; failed, whether an acquisition failed; misuse, whether it went on
\* to pass the invalid descriptor, mapping or buffer to a later call.
time_syscall_mb(r, env) ==
    [r |-> r, fault |-> FALSE, failed |-> FALSE, misuse |-> FALSE]

time_implicit_mb(r, env) ==
    [r |-> r, fault |-> FALSE, failed |-> FALSE, misuse |-> FALSE]

\* mmap_mb without line 74
mmap_mb_no_munmap(r, env) ==
    LET o == open(r, TEST_READ_PATH, env.open)
        m == mmap(o.r, TEST_READ_LEN, o.val, env.mmap)
        b == malloc(m.r, TEST_READ_LEN, env.malloc)
        failed == o.val = BAD_FD \/ m.val = MAP_FAILED \/ b.val = NULL
    IN  IF ~memcpy_defined(b.r, b.val, m.val) /\ env.ub = "fault"
        THEN [r |-> b.r, fault |-> TRUE, failed |-> failed, misuse |-> failed]
        ELSE [r |-> free(close(b.r, o.val), b.val), fault |-> FALSE,
              failed |-> failed, misuse |-> failed]

mmap_mb(r, env) ==
    LET o == open(r, TEST_READ_PATH, env.open)
        fd == o.val
        len == TEST_READ_LEN
        m == mmap(o.r, len, fd, env.mmap)
        data == m.val
        b == malloc(m.r, len, env.malloc)
        buf == b.val
        defined == memcpy_defined(b.r, buf, data)
        r1 == munmap(b.r, data, len)
        r2 == close(r1, fd)
        r3 == free(r2, buf)
        failed == fd = BAD_FD \/ data = MAP_FAILED \/ buf = NULL
    IN  IF ~defined /\ env.ub = "fault"
        THEN [r |-> b.r, fault |-> TRUE, failed |-> failed, misuse |-> failed]
        ELSE [r |-> r3, fault |-> FALSE, failed |-> failed, misuse |-> failed]

file_mb(r, env) ==
    LET o == open(r, TEST_READ_PATH, env.open)
        fd == o.val
        len == TEST_READ_LEN
        b == malloc(o.r, len, env.malloc)
        buf == b.val
        \* read(fd, buf, len): EBADF or EFAULT on an invalid argument, no fault
        r1 == close(b.r, fd)
        r2 == free(r1, buf)
        failed == fd = BAD_FD \/ buf = NULL
    IN  [r |-> r2, fault |-> FALSE, failed |-> failed, misuse |-> failed]

ClockOps == {"time_syscall_mb", "time_implicit_mb"}
FileOps == {"mmap_mb", "file_mb"}
Ops == ClockOps \cup FileOps

\* the call through the function pointer
inner_call_impl(op, r, env) ==
    CASE op = "time_syscall_mb" -> time_syscall_mb(r, env)
      [] op = "time_implicit_mb" -> time_implicit_mb(r, env)
      [] op = "mmap_mb" -> mmap_mb(r, env)
      [] op = "file_mb" -> file_mb(r, env)


\* -------------------------------------------------------------- state
VARIABLES
    argv,        \* main's argv, argv[0] first
    pc,          \* where the program is
    exit_status, \* the value main returned (read only at pc = "exit")
    mode, do_time, do_file,          \* main's locals
    stdout, stderr,                  \* what was written, in order
    inner_call, calls, iters, reps,  \* run_bench_ns's parameters
    rep, i, call,                    \* its three loop counters (unsigned int)
    best_ns1, best_ns2, before,      \* its locals
    best_ns,     \* the drivers' best_ns_syscall, _implicit, _mmap, _file
    clock,       \* the monotonic clock's last reading, as a tick
    res,         \* descriptors, mappings and heap blocks the process holds
    count,       \* observer: invocations of each measured operation
    tainted,     \* observer: an acquisition failed in the current run
    misused,     \* observer: an invalid handle was passed on
    samples,     \* observer: ns the clock advanced over each sample of this repetition
    repBests     \* observer: per-call estimate of each finished repetition

vars == <<argv, pc, exit_status, mode, do_time, do_file, stdout, stderr,
          inner_call, calls, iters, reps, rep, i, call, best_ns1, best_ns2,
          before, best_ns, clock, res, count, tainted, misused, samples,
          repBests>>

mainLocals == <<mode, do_time, do_file>>
rbParams == <<inner_call, calls, iters, reps>>
rbLocals == <<rep, i, call, best_ns1, best_ns2, before>>
observers == <<count, tainted, misused, samples, repBests>>

\* ------------------------------------------------------------- output
\* One item of output: a format string and its argument (0 when none).
Out(fmt, arg) == [fmt |-> fmt, arg |-> arg]
Dot == Out(".", 0)
TimeHeader == Out("clock_gettime: ", 0)
FileHeader == Out("file read: ", 0)
Newline == Out("\n", 0)
InvalidModeText == "Invalid mode '%c'! Valid modes are: [t]ime, [f]ile, [a]ll\n"

\* -------------------------------------------------------------- inputs
Prog == <<"c","a","l","l","b","e","n","c","h">>

\* The command lines the program is run on.  A run is followed call by
\* call, so the ones that are followed keep calls * iters * reps small.
Argvs == {
    <<Prog>>,
    <<Prog, <<"t">>>>,
    <<Prog, <<"z">>>>,
    <<Prog, <<"Z">>, <<"2">>, <<"2">>, <<"2">>>>,
    <<Prog, <<"x">>, <<"1">>>>,
    <<Prog, <<>>>>,
    <<Prog, <<"7">>, <<"1">>, <<"1">>, <<"1">>>>,
    <<Prog, <<"t">>, <<"1","0","0","0">>, <<"4">>, <<"1">>>>,
    <<Prog, <<"T">>, <<"2">>, <<"2">>, <<"2">>>>,
    <<Prog, <<"t","i","m","e">>, <<"1">>, <<"0">>, <<"1">>>>,
    <<Prog, <<"t">>, <<"-","1">>, <<"1">>, <<"1">>>>,
    <<Prog, <<"f">>, <<"1">>, <<"2">>, <<"2">>>>,
    <<Prog, <<"F">>, <<"2">>, <<"1">>>>,
    <<Prog, <<"f","i","l","e">>, <<"2">>, <<"2">>, <<"x">>>>,
    <<Prog, <<"a">>, <<"2">>, <<"2">>, <<"2">>>>,
    <<Prog, <<"A">>, <<"1">>, <<"1">>, <<"1">>>>,
    <<Prog, <<"a","l","l">>, <<"3">>, <<"2">>, <<"1">>>>,
    <<Prog, <<"a">>, <<"1">>, <<"+","3">>, <<"2">>>> }

\* What the process may hold when main starts: the three standard
\* descriptors, or stdin closed by the parent and a descriptor inherited.
NoRes == [fds |-> StdFds, maps |-> {}, bufs |-> {}]
StartRes == {NoRes, [fds |-> {1, 2, 4}, maps |-> {}, bufs |-> {}]}

InitOn(inputs) ==
    /\ argv \in inputs
    /\ pc = "main"
    /\ exit_status = -1
    /\ mode = "a" /\ do_time = FALSE /\ do_file = FALSE
    /\ stdout = <<>> /\ stderr = <<>>
    /\ inner_call = "none" /\ calls = 1 /\ iters = 1 /\ reps = 1
    /\ rep = 0 /\ i = 0 /\ call = 0
    /\ best_ns1 = LONG_MAX /\ best_ns2 = LONG_MAX /\ before = Timespec(0)
    /\ best_ns = [op \in Ops |-> 0]
    /\ clock \in 0..MaxTicks
    /\ res \in StartRes
    /\ count = [op \in Ops |-> 0]
    /\ tainted = FALSE /\ misused = FALSE
    /\ samples = {} /\ repBests = {}

Init == InitOn(Argvs)

\* --------------------------------------------------------------- main
\* lines 178-185: the mode character, and whether it is one of t, f, a
ModeOf(av) == IF Argc(av) >= 2 THEN tolower(CharAt(Arg(av, 1), 1)) ELSE "a"
ValidMode(m) == ~(m # "t" /\ m # "f" /\ m # "a")

\* main with line 183 (return 1) missing: it goes on to the switch
main_falls_through ==
    /\ pc = "main"
    /\ mode' = ModeOf(argv)
    /\ IF ~ValidMode(mode')
       THEN stderr' = Append(stderr, Out(InvalidModeText, mode'))
       ELSE UNCHANGED stderr
    /\ do_time' = (mode' = "t" \/ mode' = "a")
    /\ do_file' = (mode' = "f" \/ mode' = "a")
    /\ pc' = "main_time"
    /\ UNCHANGED <<argv, exit_status, stdout, rbParams, rbLocals, best_ns,
                   clock, res, observers>>

\* main with the cases 't' and 'f' of the switch exchanged
main_cases_swapped ==
    /\ pc = "main"
    /\ mode' = ModeOf(argv)
    /\ IF ~ValidMode(mode')
       THEN /\ stderr' = Append(stderr, Out(InvalidModeText, mode'))
            /\ exit_status' = 1
            /\ pc' = "exit"
            /\ UNCHANGED <<do_time, do_file>>
       ELSE /\ do_time' = (mode' = "f" \/ mode' = "a")
            /\ do_file' = (mode' = "t" \/ mode' = "a")
            /\ pc' = "main_time"
            /\ UNCHANGED <<stderr, exit_status>>
    /\ UNCHANGED <<argv, stdout, rbParams, rbLocals, best_ns, clock, res, observers>>

\* lines 173-198
main ==
    /\ pc = "main"
    /\ mode' = ModeOf(argv)
    /\ IF ~ValidMode(mode')
       THEN /\ stderr' = Append(stderr, Out(InvalidModeText, mode'))
            /\ exit_status' = 1
            /\ pc' = "exit"
            /\ UNCHANGED <<do_time, do_file>>
       ELSE /\ do_time' = (mode' = "t" \/ mode' = "a")
            /\ do_file' = (mode' = "f" \/ mode' = "a")
            /\ pc' = "main_time"
            /\ UNCHANGED <<stderr, exit_status>>
    /\ UNCHANGED <<argv, stdout, rbParams, rbLocals, best_ns, clock, res, observers>>

\* lines 200-201: if (do_time) ret = bench_time(argc, argv);
main_time ==
    /\ pc = "main_time"
    /\ pc' = IF do_time THEN "bench_time" ELSE "main_file"
    /\ UNCHANGED <<argv, exit_status, mainLocals, stdout, stderr, rbParams,
                   rbLocals, best_ns, clock, res, observers>>

\* lines 209-215: if (do_file) ret = bench_file(argc, argv); ... return 0;
main_file ==
    /\ pc = "main_file"
    /\ IF do_file
       THEN pc' = "bench_file" /\ UNCHANGED exit_status
       ELSE pc' = "exit" /\ exit_status' = 0
    /\ UNCHANGED <<argv, mainLocals, stdout, stderr, rbParams, rbLocals,
                   best_ns, clock, res, observers>>

\* ------------------------------------------------------------ drivers
\* The (calls, iters, reps) triples the three get_arg calls may give.
Triples(av, dc, di, dr) ==
    {<<c, n, r>> : c \in get_arg(Argc(av), av, 2, dc),
                   n \in get_arg(Argc(av), av, 3, di),
                   r \in get_arg(Argc(av), av, 4, dr)}

\* bench_time lines 140-142, bench_file lines 157-159
bench_time_args(av) == Triples(av, TimeDefaultCalls, TimeDefaultIters, TimeDefaultReps)
bench_file_args(av) == Triples(av, FileDefaultCalls, FileDefaultIters, FileDefaultReps)

\* Entry of run_bench_ns(op, c, n, r): line 92, and rep = 0 of line 94.
Enter(op, c, n, r) ==
    /\ inner_call' = op /\ calls' = c /\ iters' = n /\ reps' = r
    /\ best_ns1' = LONG_MAX
    /\ rep' = 0
    /\ tainted' = FALSE /\ samples' = {} /\ repBests' = {}
    /\ pc' = "rb_rep"

\* bench_time up to its first call of run_bench_ns (lines 140-147)
bench_time ==
    /\ pc = "bench_time"
    /\ \E t \in bench_time_args(argv) :
          /\ \A k \in 1..3 : ScaleFaithful(t[k])
          /\ Enter("time_syscall_mb", t[1], t[2], t[3])
    /\ stdout' = Append(stdout, TimeHeader)
    /\ UNCHANGED <<argv, exit_status, mainLocals, stderr, i, call, best_ns2,
                   before, best_ns, clock, res, count, misused>>

\* bench_file up to its first call of run_bench_ns (lines 157-164)
bench_file ==
    /\ pc = "bench_file"
    /\ \E t \in bench_file_args(argv) :
          /\ \A k \in 1..3 : ScaleFaithful(t[k])
          /\ Enter("mmap_mb", t[1], t[2], t[3])
    /\ stdout' = Append(stdout, FileHeader)
    /\ UNCHANGED <<argv, exit_status, mainLocals, stderr, i, call, best_ns2,
                   before, best_ns, clock, res, count, misused>>

\* line 148 with iters and reps exchanged in the call
bench_time_second_swapped ==
    /\ pc = "rb_return" /\ inner_call = "time_syscall_mb"
    /\ best_ns' = [best_ns EXCEPT !["time_syscall_mb"] = best_ns1]
    /\ Enter("time_implicit_mb", calls, reps, iters)
    /\ UNCHANGED <<argv, exit_status, mainLocals, stdout, stderr, i, call,
                   best_ns2, before, clock, res, count, misused>>

\* line 148: the first run has returned, the second is called with the same
\* calls, iters and reps
bench_time_second ==
    /\ pc = "rb_return" /\ inner_call = "time_syscall_mb"
    /\ best_ns' = [best_ns EXCEPT !["time_syscall_mb"] = best_ns1]
    /\ Enter("time_implicit_mb", calls, iters, reps)
    /\ UNCHANGED <<argv, exit_status, mainLocals, stdout, stderr, i, call,
                   best_ns2, before, clock, res, count, misused>>

\* line 165
bench_file_second ==
    /\ pc = "rb_return" /\ inner_call = "mmap_mb"
    /\ best_ns' = [best_ns EXCEPT !["mmap_mb"] = best_ns1]
    /\ Enter("file_mb", calls, iters, reps)
    /\ UNCHANGED <<argv, exit_status, mainLocals, stdout, stderr, i, call,
                   best_ns2, before, clock, res, count, misused>>

\* lines 148-153, then main's lines 202-207: ret is 0, so main goes on and
\* prints the separating newline when both benchmarks run
bench_time_return ==
    /\ pc = "rb_return" /\ inner_call = "time_implicit_mb"
    /\ best_ns' = [best_ns EXCEPT !["time_implicit_mb"] = best_ns1]
    /\ stdout' = stdout
                 \o <<Out("\n    syscall: %ld ns\n", best_ns["time_syscall_mb"]),
                      Out("    implicit: %ld ns\n", best_ns1)>>
                 \o (IF do_time /\ do_file THEN <<Newline>> ELSE <<>>)
    /\ pc' = "main_file"
    /\ UNCHANGED <<argv, exit_status, mainLocals, stderr, rbParams, rbLocals,
                   clock, res, observers>>

\* lines 165-170, then main's lines 211-215
bench_file_return ==
    /\ pc = "rb_return" /\ inner_call = "file_mb"
    /\ best_ns' = [best_ns EXCEPT !["file_mb"] = best_ns1]
    /\ stdout' = stdout
                 \o <<Out("\n    mmap: %ld ns\n", best_ns["mmap_mb"]),
                      Out("    read: %ld ns\n", best_ns1)>>
    /\ exit_status' = 0
    /\ pc' = "exit"
    /\ UNCHANGED <<argv, mainLocals, stderr, rbParams, rbLocals, clock, res,
                   observers>>


\* ------------------------------------------------------- run_bench_ns
SetMin(S) == CHOOSE m \in S : \A x \in S : m <= x

\* clock_gettime(CLOCK_MONOTONIC, &ts): any reading not before the last one
Readings == clock..MaxTicks

\* line 114 missing
DivAssign_none(b, c) == b

\* line 114, best_ns2 /= calls: best_ns2 is long and calls unsigned long, so
\* the division is done in unsigned long and the quotient converted back
DivAssign(b, c) == ULongToLong(LongToULong(b) \div c)

\* line 108 with the operands exchanged
Elapsed_reversed(after, bef) == true_ns(bef) - true_ns(after)

\* line 108
Elapsed(after, bef) == true_ns(after) - true_ns(bef)

\* lines 109-111
KeepBest2(elapsed_ns, best) == IF elapsed_ns < best THEN elapsed_ns ELSE best

\* lines 116-118 without the test
KeepBest1_last(best2, best1) == best2

\* lines 116-118
KeepBest1(best2, best1) == IF best2 < best1 THEN best2 ELSE best1

\* line 94, the test rep < reps passing: lines 95 and 97 (i = 0)
rb_rep_enter ==
    /\ pc = "rb_rep" /\ rep < reps
    /\ best_ns2' = LONG_MAX
    /\ i' = 0
    /\ samples' = {}
    /\ pc' = "rb_iter"
    /\ UNCHANGED <<argv, exit_status, mainLocals, stdout, stderr, rbParams,
                   rep, call, best_ns1, before, best_ns, clock, res, count,
                   tainted, misused, repBests>>

\* line 94, the test failing: line 125, return best_ns1
rb_return ==
    /\ pc = "rb_rep" /\ ~(rep < reps)
    /\ pc' = "rb_return"
    /\ UNCHANGED <<argv, exit_status, mainLocals, stdout, stderr, rbParams,
                   rbLocals, best_ns, clock, res, observers>>

\* line 97, the test i < iters passing: lines 98-99 and 101 (call = 0)
rb_sample_begin ==
    /\ pc = "rb_iter" /\ i < iters
    /\ \E t \in Readings : clock' = t /\ before' = Timespec(t)
    /\ call' = 0
    /\ pc' = "rb_call"
    /\ UNCHANGED <<argv, exit_status, mainLocals, stdout, stderr, rbParams,
                   rep, i, best_ns1, best_ns2, best_ns, res, observers>>

\* line 101, the test call < calls passing: line 102 and call++
rb_inner_call ==
    /\ pc = "rb_call" /\ call < calls
    /\ \E env \in (IF inner_call \in FileOps THEN Envs ELSE {AllGood}) :
          LET o == inner_call_impl(inner_call, res, env)
          IN  /\ res' = o.r
              /\ tainted' = (tainted \/ o.failed)
              /\ misused' = (misused \/ o.misuse)
              /\ IF o.fault
                 THEN pc' = "crashed" /\ UNCHANGED call
                 ELSE pc' = pc /\ call' = UIntInc(call)
    /\ count' = [count EXCEPT ![inner_call] = IF @ < MaxCount THEN @ + 1 ELSE @]
    /\ UNCHANGED <<argv, exit_status, mainLocals, stdout, stderr, rbParams,
                   rep, i, best_ns1, best_ns2, before, best_ns, clock,
                   samples, repBests>>

\* line 101, the test failing: lines 105-111 and i++
rb_sample_end ==
    /\ pc = "rb_call" /\ ~(call < calls)
    /\ \E t \in Readings :
          LET after == Timespec(t)
              elapsed_ns == Elapsed(after, before)
          IN  /\ clock' = t
              /\ best_ns2' = KeepBest2(elapsed_ns, best_ns2)
              \* the observer takes the sample from the clock itself: no
              \* reading lies between the two that bracket the calls
              /\ samples' = samples \cup {t - clock}
    /\ i' = UIntInc(i)
    /\ pc' = "rb_iter"
    /\ UNCHANGED <<argv, exit_status, mainLocals, stdout, stderr, rbParams,
                   rep, call, best_ns1, before, best_ns, res, count, tainted,
                   misused, repBests>>

\* line 97, the test failing: lines 114-122 and rep++ (fflush and the
\* 125 ms usleep change nothing the program reads)
rb_rep_end ==
    /\ pc = "rb_iter" /\ ~(i < iters)
    /\ best_ns2' = DivAssign(best_ns2, calls)
    /\ best_ns1' = KeepBest1(best_ns2', best_ns1)
    /\ stdout' = Append(stdout, Dot)
    /\ rep' = UIntInc(rep)
    /\ repBests' = repBests \cup {SetMin(samples) \div calls}
    /\ pc' = "rb_rep"
    /\ UNCHANGED <<argv, exit_status, mainLocals, stderr, rbParams, i, call,
                   before, best_ns, clock, res, count, tainted, misused,
                   samples>>

\* ------------------------------------------------------ specification
Next ==
    \/ main
    \/ main_time
    \/ main_file
    \/ bench_time
    \/ bench_time_second
    \/ bench_time_return
    \/ bench_file
    \/ bench_file_second
    \/ bench_file_return
    \/ rb_rep_enter
    \/ rb_return
    \/ rb_sample_begin
    \/ rb_inner_call
    \/ rb_sample_end
    \/ rb_rep_end

Spec == Init /\ [][Next]_vars


\* The same program under the scheduling a single-threaded process gets: it
\* keeps executing while it has a next statement.
FairInputs == {
    <<Prog, <<"z">>>>,
    <<Prog, <<"t">>, <<"-","1">>, <<"1">>, <<"1">>>>,
    <<Prog, <<"t">>, <<"2">>, <<"1">>, <<"2">>>>,
    <<Prog, <<"f">>, <<"1">>, <<"1">>, <<"1">>>>,
    <<Prog, <<"a">>, <<"1">>, <<"1">>, <<"1">>>> }

FairInit == InitOn(FairInputs)

FairSpec == FairInit /\ [][Next]_vars /\ WF_vars(Next)

\* ------------------------------------------- get_arg as a pure function
\* Tokens a parameter may be given as.
Tokens == {
    <<"0">>, <<"0","0">>, <<"-","0">>, <<>>, <<"a","b","c">>, <<"x","5">>,
    <<"5","x">>, <<" ","7">>, <<"1","2">>, <<"-","1">>, <<"9","9","9","9">> }

Overflowing(tok) == ParsedNumber(tok) < INT_MIN \/ ParsedNumber(tok) > INT_MAX

\* Command lines with zero to three parameters, at most one of them a
\* number int cannot hold.
ArgInputs ==
    LET lines == UNION {[1..n -> Tokens] : n \in 0..3}
    IN  {<<Prog, <<"a">>>> \o l : l \in
            {l \in lines : Cardinality({k \in DOMAIN l : Overflowing(l[k])}) <= 1}}

ArgsInit ==
    /\ InitOn(ArgInputs)
    /\ clock = 0 /\ res = NoRes

\* bench_time's lines 140-142 alone
args_time ==
    /\ pc = "main"
    /\ \E t \in bench_time_args(argv) : calls' = t[1] /\ iters' = t[2] /\ reps' = t[3]
    /\ pc' = "args_time"
    /\ UNCHANGED <<argv, exit_status, mainLocals, stdout, stderr, inner_call,
                   rbLocals, best_ns, clock, res, observers>>

\* bench_file's lines 157-159 alone
args_file ==
    /\ pc = "main"
    /\ \E t \in bench_file_args(argv) : calls' = t[1] /\ iters' = t[2] /\ reps' = t[3]
    /\ pc' = "args_file"
    /\ UNCHANGED <<argv, exit_status, mainLocals, stdout, stderr, inner_call,
                   rbLocals, best_ns, clock, res, observers>>

NextArgs == args_time \/ args_file

SpecArgs == ArgsInit /\ [][NextArgs]_vars


\* =============================================================== claims
HasMode == Argc(argv) >= 2
FirstChar == CharAt(Arg(argv, 1), 1)
InvalidFirst == HasMode /\ FirstChar \notin {"t", "T", "f", "F", "a", "A"}
TimeOnly == HasMode /\ FirstChar \in {"t", "T"}
FileOnly == HasMode /\ FirstChar \in {"f", "F"}
Both == ~HasMode \/ FirstChar \in {"a", "A"}
InDriver == pc \in {"bench_time", "bench_file", "rb_rep", "rb_iter", "rb_call",
                    "rb_return", "crashed"}
InRunBench == pc \in {"rb_rep", "rb_iter", "rb_call"}
NoCalls == \A op \in Ops : count[op] = 0
Dots(out) == Cardinality({k \in DOMAIN out : out[k] = Dot})
DotSeq(n) == [k \in 1..n |-> Dot]

\* C1: when the first argument's first character, lower-cased, is not t, f
\* or a, main writes the diagnostic with that character and the three valid
\* modes to stderr, exits with status 1, and has entered no driver and
\* invoked no measured operation.
C1_InvalidModeRejected ==
    InvalidFirst =>
        /\ pc \in {"main", "exit"}
        /\ NoCalls
        /\ stdout = <<>>
        /\ pc = "exit" =>
              /\ exit_status = 1
              /\ stderr = <<Out(InvalidModeText, tolower(FirstChar))>>

C1_Witness ==
    /\ pc = "exit" /\ InvalidFirst /\ FirstChar = "Z" /\ Argc(argv) = 5
    /\ exit_status = 1 /\ stderr # <<>> /\ stderr[1].arg = "z"

\* C2: mode t (either case) invokes the two clock operations and never a
\* file operation, mode f the two file operations and never a clock
\* operation; mode a, or no argument, selects both benchmarks, and every
\* invocation of a clock operation comes before the first invocation of a
\* file operation.
C2_Selection ==
    /\ TimeOnly =>
          /\ count["mmap_mb"] = 0 /\ count["file_mb"] = 0
          /\ pc # "main" => do_time /\ ~do_file
          /\ pc = "exit" => count["time_syscall_mb"] > 0 /\ count["time_implicit_mb"] > 0
    /\ FileOnly =>
          /\ count["time_syscall_mb"] = 0 /\ count["time_implicit_mb"] = 0
          /\ pc # "main" => ~do_time /\ do_file
          /\ pc = "exit" => count["mmap_mb"] > 0 /\ count["file_mb"] > 0
    /\ Both =>
          /\ pc # "main" => do_time /\ do_file
          /\ pc \in {"bench_file", "exit"} =>
                count["time_syscall_mb"] > 0 /\ count["time_implicit_mb"] > 0
          /\ pc = "exit" => count["mmap_mb"] > 0 /\ count["file_mb"] > 0

C2_ClockBeforeFile ==
    (\E op \in ClockOps : count'[op] # count[op]) => \A op \in FileOps : count[op] = 0

C2_ModeDispatch == []C2_Selection /\ [][C2_ClockBeforeFile]_vars

C2_Witness ==
    /\ pc = "exit" /\ HasMode /\ FirstChar = "A" /\ exit_status = 0
    /\ \A op \in Ops : count[op] = 1

\* C3: when run_bench_ns returns to a driver, the operation it measured has
\* been invoked exactly calls * iters * reps times and one dot per
\* repetition has been written; both runs of a driver get the same calls,
\* iters and reps; the driver then writes one labelled line per operation
\* and the program exits with status 0.  With "t 1000 4 1" that is 4000
\* invocations of each clock operation.
TimeOutput ==
    <<TimeHeader>> \o DotSeq(2 * reps)
    \o <<Out("\n    syscall: %ld ns\n", best_ns["time_syscall_mb"]),
         Out("    implicit: %ld ns\n", best_ns["time_implicit_mb"])>>
FileOutput ==
    <<FileHeader>> \o DotSeq(2 * reps)
    \o <<Out("\n    mmap: %ld ns\n", best_ns["mmap_mb"]),
         Out("    read: %ld ns\n", best_ns["file_mb"])>>
C3_DriverRun ==
    /\ pc = "rb_return" =>
          /\ count[inner_call] = calls * iters * reps
          /\ inner_call \in {"time_syscall_mb", "mmap_mb"} =>
                Dots(stdout) = reps + (IF inner_call = "mmap_mb" /\ do_time THEN 2 * reps ELSE 0)
          /\ inner_call = "time_implicit_mb" =>
                /\ count["time_syscall_mb"] = calls * iters * reps
                /\ Dots(stdout) = 2 * reps
          /\ inner_call = "file_mb" =>
                /\ count["mmap_mb"] = calls * iters * reps
                /\ Dots(stdout) = 2 * reps + (IF do_time THEN 2 * reps ELSE 0)
    /\ pc = "exit" /\ ~InvalidFirst =>
          /\ exit_status = 0
          /\ stdout = IF do_time /\ do_file THEN TimeOutput \o <<Newline>> \o FileOutput
                      ELSE IF do_time THEN TimeOutput ELSE FileOutput
    /\ pc = "exit" /\ argv = <<Prog, <<"t">>, <<"1","0","0","0">>, <<"4">>, <<"1">>>> =>
          /\ count["time_syscall_mb"] = 4000 /\ count["time_implicit_mb"] = 4000
          /\ exit_status = 0

C3_Witness ==
    /\ pc = "exit" /\ argv = <<Prog, <<"t">>, <<"1","0","0","0">>, <<"4">>, <<"1">>>>
    /\ calls = 1000 /\ iters = 4 /\ reps = 1
    /\ count["time_syscall_mb"] = 4000 /\ count["time_implicit_mb"] = 4000
    /\ Len(stdout) = 5 /\ exit_status = 0


\* C4.  A parameter is given when argc > index; its token is then read by
\* atoi.  The parameters of both drivers sit at argv[2], argv[3], argv[4].
Given(index) == Argc(argv) > index
Resolved(index) == IF index = 2 THEN calls ELSE IF index = 3 THEN iters ELSE reps
DefaultOf(index) ==
    IF pc = "args_time"
    THEN (IF index = 2 THEN TimeDefaultCalls
          ELSE IF index = 3 THEN TimeDefaultIters ELSE TimeDefaultReps)
    ELSE (IF index = 2 THEN FileDefaultCalls
          ELSE IF index = 3 THEN FileDefaultIters ELSE FileDefaultReps)

\* A numeric token: an optional sign, then digits and nothing else.
SignLen(tok) == IF Len(tok) >= 1 /\ tok[1] \in {"-", "+"} THEN 1 ELSE 0
NumericToken(tok) ==
    /\ Len(tok) > SignLen(tok)
    /\ \A k \in (SignLen(tok) + 1)..Len(tok) : isdigit(tok[k])
ZeroToken(tok) ==
    /\ NumericToken(tok)
    /\ \A k \in (SignLen(tok) + 1)..Len(tok) : tok[k] = "0"

\* The digits a token starts with, after white space and one optional sign.
FirstNonSpace(tok) ==
    CHOOSE k \in 1..(Len(tok) + 1) :
        /\ \A q \in 1..(k - 1) : isspace(tok[q])
        /\ k = Len(tok) + 1 \/ ~isspace(tok[k])
DigitsFrom(tok) ==
    LET k == FirstNonSpace(tok)
    IN  IF CharAt(tok, k) \in {"-", "+"} THEN k + 1 ELSE k
LeadingDigitPositions(tok) ==
    {m \in DigitsFrom(tok)..Len(tok) : \A q \in DigitsFrom(tok)..m : isdigit(tok[q])}
\* No leading digits, or leading digits that are all 0.
ReadsAsZero(tok) == \A m \in LeadingDigitPositions(tok) : tok[m] = "0"

C5_RunBenchReturns == InRunBench ~> (pc \in {"rb_return", "crashed"})

\* C6: a failed open, mmap or malloc aborts the run: the operation does not
\* go on with the invalid descriptor, mapping or buffer, and run_bench_ns
\* returns no number from a run in which an acquisition failed.
C6_FailureAborts ==
    /\ ~misused
    /\ pc = "rb_return" => ~tainted

\* C7: a measured operation that returns leaves the descriptors, mappings
\* and heap blocks of the process as it found them, whatever failed in it.
C7_Balanced == pc' # "crashed" => res' = res
C7_NoResourceHeld == [][C7_Balanced]_vars

C7_Witness ==
    /\ pc = "rb_return" /\ inner_call = "file_mb" /\ tainted
    /\ count["mmap_mb"] > 1 /\ count["file_mb"] > 1
    /\ res \in StartRes

\* C8: what run_bench_ns returns is not negative, and is not the LONG_MAX
\* it started from.
C8_ResultNonNegative == pc = "rb_return" => best_ns1 >= 0 /\ best_ns1 < LONG_MAX

C8_Witness == pc = "rb_return" /\ inner_call \in ClockOps /\ calls = 1 /\ best_ns1 > 1

\* C9: within one call of run_bench_ns the running best never increases, so
\* more repetitions never give a larger result.
C9_Step == (InRunBench /\ inner_call' = inner_call) => best_ns1' <= best_ns1
C9_BestNeverIncreases == [][C9_Step]_vars

C9_Witness ==
    /\ pc = "rb_rep" /\ rep = 2 /\ repBests = {0, 1} /\ best_ns1 = 0 /\ best_ns2 = 1

\* C10: the result is the least, over the repetitions, of the repetition's
\* least sample divided by calls; within a repetition best_ns2 is the least
\* undivided sample, and each sample brackets exactly calls invocations.
C10_MinOfMins ==
    /\ pc \in {"rb_iter", "rb_call"} => best_ns2 = SetMin(samples \cup {LONG_MAX})
    /\ pc = "rb_iter" /\ i > 0 => call = calls
    /\ (pc \in {"rb_rep", "rb_return"} /\ repBests # {}) => best_ns1 = SetMin(repBests)
    /\ pc = "rb_return" => repBests # {}

C10_Witness ==
    /\ pc = "rb_return" /\ calls = 2 /\ repBests = {0, 1} /\ best_ns1 = 0

====
